---- MODULE Spec2Model ----
(***************************************************************************)
(* Model of Daemon.Run (src/daemon/daemon.go): the main thread of Run, the *)
(* serve-loop worker goroutine, the HTTP profiling goroutine and the two   *)
(* signal listeners, with the channels, the wait group and the log file    *)
(* they share.                                                             *)
(***************************************************************************)
EXTENDS Integers, Sequences, FiniteSets, TLC

\* ------------------------------------------------------------------ bounds
\* number of SIGUSR1 deliveries explored
MaxDumps == 1

\* largest index value tried for TransactionInput.Index
MaxIndex == 2

\* number of consecutive createDirIfNotExist calls explored
MaxCalls == 2

\* --------------------------------------------------------------- constants
\* errC := make(chan error, 10)
ErrCCap == 10

Nil == "nil"

\* log-level strings handed to Run through the configuration
LogLevelInputs == {"info", "DEBUG", "invalid-level", ""}

\* errors api.Create can fail with
CreateErrs == {"device not found", "listen failed"}

\* errors apiServer.Serve can return
ServeErrs == {"serve failed", "accept failed"}

VARIABLES
    cfg,           \* d.config.App: LogLevel, ColorLog, LogToFile, ProfileCPU, HTTPProf
    dirExists,     \* filesystem: the logs directory exists
    pc,            \* position of the main thread inside Run
    err,           \* Run's outer err variable (lines 39 and 98)
    retErr,        \* var retErr error
    result,        \* value returned by Run once pc = "returned"
    apiServer,     \* var apiServer *api.Server
    logLevel,      \* level installed by logging.SetLevel
    colors,        \* logging colors: "unset", "on", "off"
    logFile,       \* "nil", "open", "closed"
    closeCount,    \* number of logFile.Close() calls
    cpuProf,       \* "off", "on", "stopped"
    errC,          \* buffered error channel
    quit,          \* "none" (not made yet), "open", "closed"
    wg,            \* sync.WaitGroup counter
    worker,        \* serve-loop goroutine: "none","serve","logerr","senderr","deferred","done"
    serveResult,   \* "running" until Serve returns, then Nil or its error
    shutdownCalls, \* number of apiServer.Shutdown() calls
    createCalls,   \* number of d.createServer calls
    prof,          \* HTTP profiling goroutine: "none","listening","failed"
    sig,           \* CatchInterrupt goroutine: "none","waiting","done"
    dbg,           \* CatchDebug goroutine: "none","waiting"
    dumps,         \* stack dumps printed by CatchDebug
    lateWriters,   \* goroutines that wrote a log line after logFile.Close()
    firstEvent,    \* which came first: "none", "quit" (close of quit), "err" (Serve error)
    selCase,       \* case taken by the select: "none", "quit", "err"
    errAtSelect,   \* errC held an error when the select was evaluated
    logErr,        \* err of line 57: the error initLogFile returned
    cpuErr,        \* err of lines 67 and 73: the CPU profiling error
    m,             \* the TransactionInput receiver of Validate: Hash, Index
    m0,            \* the receiver as it was when Validate was called
    res,           \* var res []error of Validate
    vpc,           \* position inside Validate: "idle","hash","index","result","done"
    vret,          \* value returned by Validate
    existing,      \* filesystem: the directories that exist
    cdPath,        \* the dir argument of createDirIfNotExist
    cdCalls        \* completed createDirIfNotExist calls, in order

vars == <<cfg, dirExists, pc, err, retErr, result, apiServer, logLevel, colors,
          logFile, closeCount, cpuProf, errC, quit, wg, worker, serveResult,
          shutdownCalls, createCalls, prof, sig, dbg, dumps, lateWriters,
          firstEvent, selCase, errAtSelect, logErr, cpuErr,
          m, m0, res, vpc, vret, existing, cdPath, cdCalls>>

\* variables of the goroutines other than the main thread
workerVars == <<worker, serveResult>>
sideVars == <<prof, sig, dbg, dumps>>
fsVars == <<dirExists, logFile, closeCount>>
ghostVars == <<firstEvent, selCase, errAtSelect>>
errVars == <<logErr, cpuErr>>

\* variables of TransactionInput.Validate and of createDirIfNotExist called alone
validateVars == <<m, m0, res, vpc, vret>>
dirVars == <<existing, cdPath, cdCalls>>

\* variables of Run
runVars == <<cfg, dirExists, pc, err, retErr, result, apiServer, logLevel, colors,
             logFile, closeCount, cpuProf, errC, quit, wg, worker, serveResult,
             shutdownCalls, createCalls, prof, sig, dbg, dumps, lateWriters,
             firstEvent, selCase, errAtSelect, logErr, cpuErr>>

\* ------------------------------------------------------------ pure helpers

\* strings.ToLower on the inputs used here
ToLower(s) ==
    IF s = "DEBUG" THEN "debug" ELSE s

\* logging.LevelFromString: level and error
LevelFromString(s) ==
    LET l == ToLower(s) IN
    CASE l = "debug" -> [level |-> "debug", err |-> Nil]
      [] l \in {"info", "notice"} -> [level |-> "info", err |-> Nil]
      [] l \in {"warn", "warning"} -> [level |-> "warn", err |-> Nil]
      [] l = "error" -> [level |-> "error", err |-> Nil]
      [] l \in {"fatal", "critical"} -> [level |-> "fatal", err |-> Nil]
      [] l = "panic" -> [level |-> "panic", err |-> Nil]
      [] OTHER -> [level |-> "debug", err |-> "could not convert string to log level"]

\* fmt.Errorf("invalid -log-level: %v", err)
InvalidLogLevelErr(e) ==
    IF e = "could not convert string to log level"
    THEN "invalid -log-level: could not convert string to log level"
    ELSE "invalid -log-level: <nil>"

\* fmt.Errorf("createDirIfNotExist(%s) failed: %v", logDir, err)
CreateDirErr(e) ==
    IF e = "mkdir failed"
    THEN "createDirIfNotExist(logs) failed: mkdir failed"
    ELSE "createDirIfNotExist(logs) failed: <nil>"

\* os.Stat on the logs directory: the results the filesystem can give
StatResults(exists) ==
    IF exists THEN {"ok", "other"} ELSE {"notexist", "other"}

\* os.IsNotExist
IsNotExist(st) == st = "notexist"

\* variant of createDirIfNotExist: the negation of os.IsNotExist is missing
createDirIfNotExist_Inverted(exists, st, mkdirOk) ==
    IF IsNotExist(st)
    THEN [err |-> Nil, exists |-> exists, mkdir |-> FALSE]
    ELSE IF mkdirOk
         THEN [err |-> Nil, exists |-> TRUE, mkdir |-> TRUE]
         ELSE [err |-> "mkdir failed", exists |-> exists, mkdir |-> TRUE]

\* createDirIfNotExist: error returned and directory state afterwards
createDirIfNotExist(exists, st, mkdirOk) ==
    IF ~IsNotExist(st)
    THEN [err |-> Nil, exists |-> exists, mkdir |-> FALSE]
    ELSE IF mkdirOk
         THEN [err |-> Nil, exists |-> TRUE, mkdir |-> TRUE]
         ELSE [err |-> "mkdir failed", exists |-> exists, mkdir |-> TRUE]

\* a line written through d.logger by goroutine g: the file hook writes it
\* to the log file, also when that file is already closed
LogWrite(g) ==
    lateWriters' = IF logFile = "closed" THEN lateWriters \cup {g} ELSE lateWriters

Init ==
    /\ cfg \in [LogLevel : LogLevelInputs, ColorLog : BOOLEAN, LogToFile : BOOLEAN,
                ProfileCPU : BOOLEAN, HTTPProf : BOOLEAN]
    /\ dirExists \in BOOLEAN
    /\ pc = "loglevel"
    /\ err = Nil
    /\ retErr = Nil
    /\ result = Nil
    /\ apiServer = Nil
    /\ logLevel = "unset"
    /\ colors = "unset"
    /\ logFile = "nil"
    /\ closeCount = 0
    /\ cpuProf = "off"
    /\ errC = <<>>
    /\ quit = "none"
    /\ wg = 0
    /\ worker = "none"
    /\ serveResult = "running"
    /\ shutdownCalls = 0
    /\ createCalls = 0
    /\ prof = "none"
    /\ sig = "none"
    /\ dbg = "none"
    /\ dumps = 0
    /\ lateWriters = {}
    /\ firstEvent = "none"
    /\ selCase = "none"
    /\ errAtSelect = FALSE
    /\ logErr = Nil
    /\ cpuErr = Nil
    /\ m = [Hash |-> <<>>, Index |-> <<>>]
    /\ m0 = m
    /\ res = <<>>
    /\ vpc = "idle"
    /\ vret = [isNil |-> TRUE, code |-> 0, errors |-> <<>>]
    /\ existing = {}
    /\ cdPath = "logs"
    /\ cdCalls = <<>>

\* ------------------------------------------------------------ main thread

\* variant of LogLevelInvalid: the error is logged but Run carries on
LogLevelInvalid_NoReturn ==
    /\ pc = "loglevel"
    /\ LevelFromString(cfg.LogLevel).err # Nil
    /\ err' = InvalidLogLevelErr(LevelFromString(cfg.LogLevel).err)
    /\ LogWrite("main")
    /\ pc' = "logfile"
    /\ UNCHANGED result
    /\ UNCHANGED <<cfg, retErr, apiServer, logLevel, colors, cpuProf, errC, quit, wg,
                   shutdownCalls, createCalls>>
    /\ UNCHANGED <<workerVars, sideVars, fsVars, ghostVars>>
    /\ UNCHANGED <<errVars, validateVars, dirVars>>

\* lines 39-44: the level string is not recognized
LogLevelInvalid ==
    /\ pc = "loglevel"
    /\ LevelFromString(cfg.LogLevel).err # Nil
    /\ err' = InvalidLogLevelErr(LevelFromString(cfg.LogLevel).err)
    /\ LogWrite("main")
    /\ result' = err'
    /\ pc' = "returned"
    /\ UNCHANGED <<cfg, retErr, apiServer, logLevel, colors, cpuProf, errC, quit, wg,
                   shutdownCalls, createCalls>>
    /\ UNCHANGED <<workerVars, sideVars, fsVars, ghostVars>>
    /\ UNCHANGED <<errVars, validateVars, dirVars>>

\* lines 39-52: the level is recognized, set level and colors
LogLevelOk ==
    /\ pc = "loglevel"
    /\ LevelFromString(cfg.LogLevel).err = Nil
    /\ logLevel' = LevelFromString(cfg.LogLevel).level
    /\ colors' = IF cfg.ColorLog THEN "on" ELSE "off"
    /\ pc' = "logfile"
    /\ UNCHANGED <<cfg, err, retErr, result, apiServer, cpuProf, errC, quit, wg,
                   shutdownCalls, createCalls, lateWriters>>
    /\ UNCHANGED <<workerVars, sideVars, fsVars, ghostVars>>
    /\ UNCHANGED <<errVars, validateVars, dirVars>>

\* lines 54-55: file logging is disabled, logFile stays nil
LogFileSkip ==
    /\ pc = "logfile"
    /\ ~cfg.LogToFile
    /\ pc' = "cpuprof"
    /\ UNCHANGED <<cfg, err, retErr, result, apiServer, logLevel, colors, cpuProf, errC,
                   quit, wg, shutdownCalls, createCalls, lateWriters>>
    /\ UNCHANGED <<workerVars, sideVars, fsVars, ghostVars>>
    /\ UNCHANGED <<errVars, validateVars, dirVars>>

\* lines 55-61 and 144-148: createDirIfNotExist fails, Run returns the error
InitLogFileDirFail ==
    /\ pc = "logfile"
    /\ cfg.LogToFile
    /\ \E st \in StatResults(dirExists), mkdirOk \in BOOLEAN :
          LET r == createDirIfNotExist(dirExists, st, mkdirOk) IN
          /\ r.err # Nil
          /\ dirExists' = r.exists
          /\ result' = CreateDirErr(r.err)
          /\ logErr' = CreateDirErr(r.err)
    /\ LogWrite("main")
    /\ pc' = "returned"
    /\ UNCHANGED <<cfg, err, retErr, apiServer, logLevel, colors, cpuProf, errC,
                   quit, wg, shutdownCalls, createCalls, logFile, closeCount>>
    /\ UNCHANGED <<workerVars, sideVars, ghostVars>>
    /\ UNCHANGED <<cpuErr, validateVars, dirVars>>

\* variant of InitLogFileOpenFail: the error is logged but Run carries on without a log file
InitLogFileOpenFail_NoReturn ==
    /\ pc = "logfile"
    /\ cfg.LogToFile
    /\ \E st \in StatResults(dirExists), mkdirOk \in BOOLEAN, openOk \in BOOLEAN :
          LET r == createDirIfNotExist(dirExists, st, mkdirOk) IN
          /\ r.err = Nil
          /\ ~r.exists \/ ~openOk
          /\ dirExists' = r.exists
    /\ logErr' = "open failed"
    /\ result' = result
    /\ LogWrite("main")
    /\ pc' = "cpuprof"
    /\ UNCHANGED <<cfg, err, retErr, apiServer, logLevel, colors, cpuProf, errC,
                   quit, wg, shutdownCalls, createCalls, logFile, closeCount>>
    /\ UNCHANGED <<workerVars, sideVars, ghostVars>>
    /\ UNCHANGED <<cpuErr, validateVars, dirVars>>

\* lines 55-61 and 150-158: os.OpenFile fails, Run returns the error
InitLogFileOpenFail ==
    /\ pc = "logfile"
    /\ cfg.LogToFile
    /\ \E st \in StatResults(dirExists), mkdirOk \in BOOLEAN, openOk \in BOOLEAN :
          LET r == createDirIfNotExist(dirExists, st, mkdirOk) IN
          /\ r.err = Nil
          /\ ~r.exists \/ ~openOk
          /\ dirExists' = r.exists
    /\ logErr' = "open failed"
    /\ result' = logErr'
    /\ LogWrite("main")
    /\ pc' = "returned"
    /\ UNCHANGED <<cfg, err, retErr, apiServer, logLevel, colors, cpuProf, errC,
                   quit, wg, shutdownCalls, createCalls, logFile, closeCount>>
    /\ UNCHANGED <<workerVars, sideVars, ghostVars>>
    /\ UNCHANGED <<cpuErr, validateVars, dirVars>>

\* lines 55-62 and 144-163: the log file is opened and hooked into the logger
InitLogFileOk ==
    /\ pc = "logfile"
    /\ cfg.LogToFile
    /\ \E st \in StatResults(dirExists), mkdirOk \in BOOLEAN :
          LET r == createDirIfNotExist(dirExists, st, mkdirOk) IN
          /\ r.err = Nil
          /\ r.exists
          /\ dirExists' = r.exists
    /\ logFile' = "open"
    /\ pc' = "cpuprof"
    /\ UNCHANGED <<cfg, err, retErr, result, apiServer, logLevel, colors, cpuProf, errC,
                   quit, wg, shutdownCalls, createCalls, closeCount, lateWriters>>
    /\ UNCHANGED <<workerVars, sideVars, ghostVars>>
    /\ UNCHANGED <<errVars, validateVars, dirVars>>

\* line 66: CPU profiling is disabled
CPUProfSkip ==
    /\ pc = "cpuprof"
    /\ ~cfg.ProfileCPU
    /\ pc' = "httpprof"
    /\ UNCHANGED <<cfg, err, retErr, result, apiServer, logLevel, colors, cpuProf, errC,
                   quit, wg, shutdownCalls, createCalls, lateWriters>>
    /\ UNCHANGED <<workerVars, sideVars, fsVars, ghostVars>>
    /\ UNCHANGED <<errVars, validateVars, dirVars>>

\* variant of CPUProfFail: the error is kept in retErr and goto earlyShutdown runs the cleanup
CPUProfFail_Goto ==
    /\ pc = "cpuprof"
    /\ cfg.ProfileCPU
    /\ \E e \in {"create profile failed", "cpu profiling already in use"} :
          /\ cpuErr' = e
          /\ retErr' = e
    /\ LogWrite("main")
    /\ pc' = "early"
    /\ UNCHANGED <<cfg, err, result, apiServer, logLevel, colors, cpuProf, errC,
                   quit, wg, shutdownCalls, createCalls>>
    /\ UNCHANGED <<workerVars, sideVars, fsVars, ghostVars>>
    /\ UNCHANGED <<logErr, validateVars, dirVars>>

\* lines 67-76: os.Create or pprof.StartCPUProfile fails: return err at once
CPUProfFail ==
    /\ pc = "cpuprof"
    /\ cfg.ProfileCPU
    /\ \E e \in {"create profile failed", "cpu profiling already in use"} :
          /\ cpuErr' = e
          /\ result' = e
    /\ LogWrite("main")
    /\ pc' = "returned"
    /\ UNCHANGED <<cfg, err, retErr, apiServer, logLevel, colors, cpuProf, errC,
                   quit, wg, shutdownCalls, createCalls>>
    /\ UNCHANGED <<workerVars, sideVars, fsVars, ghostVars>>
    /\ UNCHANGED <<logErr, validateVars, dirVars>>

\* lines 67-77: profiling started, StopCPUProfile deferred
CPUProfOk ==
    /\ pc = "cpuprof"
    /\ cfg.ProfileCPU
    /\ cpuProf' = "on"
    /\ pc' = "httpprof"
    /\ UNCHANGED <<cfg, err, retErr, result, apiServer, logLevel, colors, errC,
                   quit, wg, shutdownCalls, createCalls, lateWriters>>
    /\ UNCHANGED <<workerVars, sideVars, fsVars, ghostVars>>
    /\ UNCHANGED <<errVars, validateVars, dirVars>>

\* lines 80-86: start the HTTP profiling goroutine if enabled
StartHTTPProf ==
    /\ pc = "httpprof"
    /\ prof' = IF cfg.HTTPProf THEN "listening" ELSE prof
    /\ pc' = "signals"
    /\ UNCHANGED <<cfg, err, retErr, result, apiServer, logLevel, colors, cpuProf, errC,
                   quit, wg, shutdownCalls, createCalls, lateWriters>>
    /\ UNCHANGED <<workerVars, sig, dbg, dumps, fsVars, ghostVars>>
    /\ UNCHANGED <<errVars, validateVars, dirVars>>

\* lines 88-96: make quit, start CatchInterrupt and CatchDebug
StartSignals ==
    /\ pc = "signals"
    /\ quit' = "open"
    /\ sig' = "waiting"
    /\ dbg' = "waiting"
    /\ pc' = "create"
    /\ UNCHANGED <<cfg, err, retErr, result, apiServer, logLevel, colors, cpuProf, errC,
                   wg, shutdownCalls, createCalls, lateWriters>>
    /\ UNCHANGED <<workerVars, prof, dumps, fsVars, ghostVars>>
    /\ UNCHANGED <<errVars, validateVars, dirVars>>

\* lines 98 and 174-193: createServer succeeds and returns the handle
CreateServerOk ==
    /\ pc = "create"
    /\ createCalls' = createCalls + 1
    /\ apiServer' = "srv"
    /\ err' = Nil
    /\ pc' = "launch"
    /\ UNCHANGED <<cfg, retErr, result, logLevel, colors, cpuProf, errC, quit, wg,
                   shutdownCalls, lateWriters>>
    /\ UNCHANGED <<workerVars, sideVars, fsVars, ghostVars>>
    /\ UNCHANGED <<errVars, validateVars, dirVars>>

\* variant of CreateServerFail: returns err on the spot instead of goto earlyShutdown
CreateServerFail_Return ==
    /\ pc = "create"
    /\ createCalls' = createCalls + 1
    /\ \E e \in CreateErrs :
          /\ err' = e
          /\ retErr' = e
    /\ apiServer' = Nil
    /\ LogWrite("main")
    /\ result' = err'
    /\ pc' = "returned"
    /\ UNCHANGED <<cfg, logLevel, colors, cpuProf, errC, quit, wg, shutdownCalls>>
    /\ UNCHANGED <<workerVars, sideVars, fsVars, ghostVars>>
    /\ UNCHANGED <<errVars, validateVars, dirVars>>

\* variant of CreateServerFail: retErr is not assigned before the goto
CreateServerFail_NoRetErr ==
    /\ pc = "create"
    /\ createCalls' = createCalls + 1
    /\ \E e \in CreateErrs :
          /\ err' = e
          /\ retErr' = retErr
    /\ apiServer' = Nil
    /\ LogWrite("main")
    /\ pc' = "early"
    /\ UNCHANGED <<cfg, result, logLevel, colors, cpuProf, errC, quit, wg, shutdownCalls>>
    /\ UNCHANGED <<workerVars, sideVars, fsVars, ghostVars>>
    /\ UNCHANGED <<errVars, validateVars, dirVars>>

\* lines 98-103 and 186-190: api.Create fails, goto earlyShutdown
CreateServerFail ==
    /\ pc = "create"
    /\ createCalls' = createCalls + 1
    /\ \E e \in CreateErrs :
          /\ err' = e
          /\ retErr' = e
    /\ apiServer' = Nil
    /\ LogWrite("main")
    /\ pc' = "early"
    /\ UNCHANGED <<cfg, result, logLevel, colors, cpuProf, errC, quit, wg, shutdownCalls>>
    /\ UNCHANGED <<workerVars, sideVars, fsVars, ghostVars>>
    /\ UNCHANGED <<errVars, validateVars, dirVars>>

\* lines 105-113: wg.Add(1) and start the serve-loop goroutine
LaunchWorker ==
    /\ pc = "launch"
    /\ wg' = wg + 1
    /\ worker' = "serve"
    /\ pc' = "select"
    /\ UNCHANGED <<cfg, err, retErr, result, apiServer, logLevel, colors, cpuProf, errC,
                   quit, shutdownCalls, createCalls, lateWriters, serveResult>>
    /\ UNCHANGED <<sideVars, fsVars, ghostVars>>
    /\ UNCHANGED <<errVars, validateVars, dirVars>>

\* variant of SelectQuit: the quit case jumps past the Shutdown call
SelectQuit_SkipShutdown ==
    /\ pc = "select"
    /\ quit = "closed"
    /\ selCase' = "quit"
    /\ errAtSelect' = (errC # <<>>)
    /\ LogWrite("main")
    /\ pc' = "wait"
    /\ UNCHANGED <<cfg, err, retErr, result, apiServer, logLevel, colors, cpuProf, errC,
                   quit, wg, shutdownCalls, createCalls, firstEvent>>
    /\ UNCHANGED <<workerVars, sideVars, fsVars>>
    /\ UNCHANGED <<errVars, validateVars, dirVars>>

\* variant of SelectQuit: the quit case is taken without quit being closed
SelectQuit_NoWait ==
    /\ pc = "select"
    /\ selCase' = "quit"
    /\ errAtSelect' = (errC # <<>>)
    /\ LogWrite("main")
    /\ pc' = "shutdown"
    /\ UNCHANGED <<cfg, err, retErr, result, apiServer, logLevel, colors, cpuProf, errC,
                   quit, wg, shutdownCalls, createCalls, firstEvent>>
    /\ UNCHANGED <<workerVars, sideVars, fsVars>>
    /\ UNCHANGED <<errVars, validateVars, dirVars>>

\* lines 115-116 and 121: the select takes the quit case
SelectQuit ==
    /\ pc = "select"
    /\ quit = "closed"
    /\ selCase' = "quit"
    /\ errAtSelect' = (errC # <<>>)
    /\ LogWrite("main")
    /\ pc' = "shutdown"
    /\ UNCHANGED <<cfg, err, retErr, result, apiServer, logLevel, colors, cpuProf, errC,
                   quit, wg, shutdownCalls, createCalls, firstEvent>>
    /\ UNCHANGED <<workerVars, sideVars, fsVars>>
    /\ UNCHANGED <<errVars, validateVars, dirVars>>

\* lines 115-121: the select receives the serve-loop error into retErr
SelectErr ==
    /\ pc = "select"
    /\ errC # <<>>
    /\ retErr' = Head(errC)
    /\ errC' = Tail(errC)
    /\ selCase' = "err"
    /\ errAtSelect' = TRUE
    /\ LogWrite("main")
    /\ pc' = "shutdown"
    /\ UNCHANGED <<cfg, err, result, apiServer, logLevel, colors, cpuProf,
                   quit, wg, shutdownCalls, createCalls, firstEvent>>
    /\ UNCHANGED <<workerVars, sideVars, fsVars>>
    /\ UNCHANGED <<errVars, validateVars, dirVars>>

\* variant of CallShutdown: the nil check on apiServer is inverted
CallShutdown_Inverted ==
    /\ pc = "shutdown"
    /\ IF apiServer = Nil
       THEN /\ shutdownCalls' = shutdownCalls + 1
            /\ LogWrite("main")
            /\ pc' = "inshutdown"
       ELSE /\ pc' = "wait"
            /\ UNCHANGED <<shutdownCalls, lateWriters>>
    /\ UNCHANGED <<cfg, err, retErr, result, apiServer, logLevel, colors, cpuProf, errC,
                   quit, wg, createCalls>>
    /\ UNCHANGED <<workerVars, sideVars, fsVars, ghostVars>>
    /\ UNCHANGED <<errVars, validateVars, dirVars>>

\* lines 123-125: apiServer.Shutdown() is called when the handle is not nil
CallShutdown ==
    /\ pc = "shutdown"
    /\ IF apiServer # Nil
       THEN /\ shutdownCalls' = shutdownCalls + 1
            /\ LogWrite("main")
            /\ pc' = "inshutdown"
       ELSE /\ pc' = "wait"
            /\ UNCHANGED <<shutdownCalls, lateWriters>>
    /\ UNCHANGED <<cfg, err, retErr, result, apiServer, logLevel, colors, cpuProf, errC,
                   quit, wg, createCalls>>
    /\ UNCHANGED <<workerVars, sideVars, fsVars, ghostVars>>
    /\ UNCHANGED <<errVars, validateVars, dirVars>>

\* lines 125-128: Shutdown returns, "Waiting for goroutines to finish"
ShutdownReturns ==
    /\ pc = "inshutdown"
    /\ LogWrite("main")
    /\ pc' = "wait"
    /\ UNCHANGED <<cfg, err, retErr, result, apiServer, logLevel, colors, cpuProf, errC,
                   quit, wg, shutdownCalls, createCalls>>
    /\ UNCHANGED <<workerVars, sideVars, fsVars, ghostVars>>
    /\ UNCHANGED <<errVars, validateVars, dirVars>>

\* variant of WgWait: does not wait for the counter to reach zero
WgWait_NoBlock ==
    /\ pc = "wait"
    /\ pc' = "early"
    /\ UNCHANGED <<cfg, err, retErr, result, apiServer, logLevel, colors, cpuProf, errC,
                   quit, wg, shutdownCalls, createCalls, lateWriters>>
    /\ UNCHANGED <<workerVars, sideVars, fsVars, ghostVars>>
    /\ UNCHANGED <<errVars, validateVars, dirVars>>

\* line 129: wg.Wait() returns once the counter is zero
WgWait ==
    /\ pc = "wait"
    /\ wg = 0
    /\ pc' = "early"
    /\ UNCHANGED <<cfg, err, retErr, result, apiServer, logLevel, colors, cpuProf, errC,
                   quit, wg, shutdownCalls, createCalls, lateWriters>>
    /\ UNCHANGED <<workerVars, sideVars, fsVars, ghostVars>>
    /\ UNCHANGED <<errVars, validateVars, dirVars>>

\* lines 131-138: "Goodbye", then close the log file if one was opened
EarlyShutdown ==
    /\ pc = "early"
    /\ LogWrite("main")
    /\ IF logFile # "nil"
       THEN /\ logFile' = "closed"
            /\ closeCount' = closeCount + 1
       ELSE UNCHANGED <<logFile, closeCount>>
    /\ pc' = "return"
    /\ UNCHANGED <<cfg, err, retErr, result, apiServer, logLevel, colors, cpuProf, errC,
                   quit, wg, shutdownCalls, createCalls, dirExists>>
    /\ UNCHANGED <<workerVars, sideVars, ghostVars>>
    /\ UNCHANGED <<errVars, validateVars, dirVars>>

\* lines 140 and 77: return retErr, the deferred StopCPUProfile runs
ReturnRetErr ==
    /\ pc = "return"
    /\ result' = retErr
    /\ cpuProf' = IF cpuProf = "on" THEN "stopped" ELSE cpuProf
    /\ pc' = "returned"
    /\ UNCHANGED <<cfg, err, retErr, apiServer, logLevel, colors, errC,
                   quit, wg, shutdownCalls, createCalls, lateWriters>>
    /\ UNCHANGED <<workerVars, sideVars, fsVars, ghostVars>>
    /\ UNCHANGED <<errVars, validateVars, dirVars>>

\* ------------------------------------------------- serve-loop goroutine

\* line 109: apiServer.Serve() returns nil
ServeReturnsNil ==
    /\ worker = "serve"
    /\ serveResult' = Nil
    /\ worker' = "deferred"
    /\ UNCHANGED <<cfg, pc, err, retErr, result, apiServer, logLevel, colors, cpuProf,
                   errC, quit, wg, shutdownCalls, createCalls, lateWriters>>
    /\ UNCHANGED <<sideVars, fsVars, ghostVars>>
    /\ UNCHANGED <<errVars, validateVars, dirVars>>

\* line 109: apiServer.Serve() returns an error
ServeReturnsErr ==
    /\ worker = "serve"
    /\ \E e \in ServeErrs : serveResult' = e
    /\ worker' = "logerr"
    /\ firstEvent' = IF firstEvent = "none" THEN "err" ELSE firstEvent
    /\ UNCHANGED <<cfg, pc, err, retErr, result, apiServer, logLevel, colors, cpuProf,
                   errC, quit, wg, shutdownCalls, createCalls, lateWriters>>
    /\ UNCHANGED <<sideVars, fsVars, selCase, errAtSelect>>
    /\ UNCHANGED <<errVars, validateVars, dirVars>>

\* variant of WorkerLogErr: the worker also shuts the server down on a Serve error
WorkerLogErr_Shutdown ==
    /\ worker = "logerr"
    /\ LogWrite("worker")
    /\ shutdownCalls' = shutdownCalls + 1
    /\ worker' = "senderr"
    /\ UNCHANGED <<cfg, pc, err, retErr, result, apiServer, logLevel, colors, cpuProf,
                   errC, quit, wg, createCalls, serveResult>>
    /\ UNCHANGED <<sideVars, fsVars, ghostVars>>
    /\ UNCHANGED <<errVars, validateVars, dirVars>>

\* line 110: d.logger.Error(err)
WorkerLogErr ==
    /\ worker = "logerr"
    /\ LogWrite("worker")
    /\ worker' = "senderr"
    /\ UNCHANGED <<cfg, pc, err, retErr, result, apiServer, logLevel, colors, cpuProf,
                   errC, quit, wg, shutdownCalls, createCalls, serveResult>>
    /\ UNCHANGED <<sideVars, fsVars, ghostVars>>
    /\ UNCHANGED <<errVars, validateVars, dirVars>>

\* variant of WorkerSendErr: errC has no buffer, the send needs the main thread at the select
WorkerSendErr_Unbuffered ==
    /\ worker = "senderr"
    /\ Len(errC) < ErrCCap
    /\ pc = "select"
    /\ errC' = Append(errC, serveResult)
    /\ worker' = "deferred"
    /\ UNCHANGED <<cfg, pc, err, retErr, result, apiServer, logLevel, colors, cpuProf,
                   quit, wg, shutdownCalls, createCalls, lateWriters, serveResult>>
    /\ UNCHANGED <<sideVars, fsVars, ghostVars>>
    /\ UNCHANGED <<errVars, validateVars, dirVars>>

\* line 111: errC <- err, blocks while the buffer is full
WorkerSendErr ==
    /\ worker = "senderr"
    /\ Len(errC) < ErrCCap
    /\ errC' = Append(errC, serveResult)
    /\ worker' = "deferred"
    /\ UNCHANGED <<cfg, pc, err, retErr, result, apiServer, logLevel, colors, cpuProf,
                   quit, wg, shutdownCalls, createCalls, lateWriters, serveResult>>
    /\ UNCHANGED <<sideVars, fsVars, ghostVars>>
    /\ UNCHANGED <<errVars, validateVars, dirVars>>

\* variant of WorkerDone: the goroutine ends without calling wg.Done
WorkerDone_NoDone ==
    /\ worker = "deferred"
    /\ wg' = wg
    /\ worker' = "done"
    /\ UNCHANGED <<cfg, pc, err, retErr, result, apiServer, logLevel, colors, cpuProf,
                   errC, quit, shutdownCalls, createCalls, lateWriters, serveResult>>
    /\ UNCHANGED <<sideVars, fsVars, ghostVars>>
    /\ UNCHANGED <<errVars, validateVars, dirVars>>

\* line 107: the deferred wg.Done()
WorkerDone ==
    /\ worker = "deferred"
    /\ wg' = wg - 1
    /\ worker' = "done"
    /\ UNCHANGED <<cfg, pc, err, retErr, result, apiServer, logLevel, colors, cpuProf,
                   errC, quit, shutdownCalls, createCalls, lateWriters, serveResult>>
    /\ UNCHANGED <<sideVars, fsVars, ghostVars>>
    /\ UNCHANGED <<errVars, validateVars, dirVars>>

\* ------------------------------------------------ fire-and-forget goroutines

\* variant of ProfListenFails: the listener failure is also sent on errC
ProfListenFails_SendsErr ==
    /\ prof = "listening"
    /\ LogWrite("prof")
    /\ prof' = "failed"
    /\ errC' = Append(errC, "profiling listen failed")
    /\ UNCHANGED <<cfg, pc, err, retErr, result, apiServer, logLevel, colors, cpuProf,
                   quit, wg, shutdownCalls, createCalls>>
    /\ UNCHANGED <<workerVars, sig, dbg, dumps, fsVars, ghostVars>>
    /\ UNCHANGED <<errVars, validateVars, dirVars>>

\* lines 82-84: http.ListenAndServe fails and the failure is logged
ProfListenFails ==
    /\ prof = "listening"
    /\ LogWrite("prof")
    /\ prof' = "failed"
    /\ UNCHANGED <<cfg, pc, err, retErr, result, apiServer, logLevel, colors, cpuProf,
                   errC, quit, wg, shutdownCalls, createCalls>>
    /\ UNCHANGED <<workerVars, sig, dbg, dumps, fsVars, ghostVars>>
    /\ UNCHANGED <<errVars, validateVars, dirVars>>

\* line 93: apputil.CatchInterrupt receives SIGINT and closes quit
Interrupt ==
    /\ sig = "waiting"
    /\ quit' = "closed"
    /\ sig' = "done"
    /\ firstEvent' = IF firstEvent = "none" THEN "quit" ELSE firstEvent
    /\ UNCHANGED <<cfg, pc, err, retErr, result, apiServer, logLevel, colors, cpuProf,
                   errC, wg, shutdownCalls, createCalls, lateWriters>>
    /\ UNCHANGED <<workerVars, prof, dbg, dumps, fsVars, selCase, errAtSelect>>
    /\ UNCHANGED <<errVars, validateVars, dirVars>>

\* line 96: apputil.CatchDebug receives SIGUSR1 and prints the stacks to stdout
DebugSignal ==
    /\ dbg = "waiting"
    /\ dumps < MaxDumps
    /\ dumps' = dumps + 1
    /\ UNCHANGED <<cfg, pc, err, retErr, result, apiServer, logLevel, colors, cpuProf,
                   errC, quit, wg, shutdownCalls, createCalls, lateWriters>>
    /\ UNCHANGED <<workerVars, prof, sig, dbg, fsVars, ghostVars>>
    /\ UNCHANGED <<errVars, validateVars, dirVars>>

Next ==
    \/ LogLevelInvalid
    \/ LogLevelOk
    \/ LogFileSkip
    \/ InitLogFileDirFail
    \/ InitLogFileOpenFail
    \/ InitLogFileOk
    \/ CPUProfSkip
    \/ CPUProfFail
    \/ CPUProfOk
    \/ StartHTTPProf
    \/ StartSignals
    \/ CreateServerOk
    \/ CreateServerFail
    \/ LaunchWorker
    \/ SelectQuit
    \/ SelectErr
    \/ CallShutdown
    \/ ShutdownReturns
    \/ WgWait
    \/ EarlyShutdown
    \/ ReturnRetErr
    \/ ServeReturnsNil
    \/ ServeReturnsErr
    \/ WorkerLogErr
    \/ WorkerSendErr
    \/ WorkerDone
    \/ ProfListenFails
    \/ Interrupt
    \/ DebugSignal

Spec == Init /\ [][Next]_vars

\* a step of the main thread of Run
MainStep ==
    \/ LogLevelInvalid \/ LogLevelOk
    \/ LogFileSkip \/ InitLogFileDirFail \/ InitLogFileOpenFail \/ InitLogFileOk
    \/ CPUProfSkip \/ CPUProfFail \/ CPUProfOk
    \/ StartHTTPProf \/ StartSignals
    \/ CreateServerOk \/ CreateServerFail
    \/ LaunchWorker \/ SelectQuit \/ SelectErr
    \/ CallShutdown \/ ShutdownReturns \/ WgWait \/ EarlyShutdown \/ ReturnRetErr

\* a step of the serve-loop goroutine after Serve returned
WorkerStep == WorkerLogErr \/ WorkerSendErr \/ WorkerDone

\* Serve returns once Shutdown has been called
ServeStopsAfterShutdown ==
    /\ shutdownCalls > 0
    /\ ServeReturnsNil \/ ServeReturnsErr

\* the goroutines of Run are scheduled fairly, Shutdown returns and makes a
\* running Serve return
FairSpec ==
    /\ Spec
    /\ WF_vars(MainStep)
    /\ WF_vars(WorkerStep)
    /\ WF_vars(ServeStopsAfterShutdown)

\* ------------------------------------------- TransactionInput.Validate

\* strings tried for TransactionInput.Hash
HashValues == {"", "abc", "f00d", "beef", "00"}

\* a pointer field: <<>> is the nil pointer, <<v>> points to v
NilPtr == <<>>
HashPtrs == {NilPtr} \cup {<<h>> : h \in HashValues}
IndexPtrs == {NilPtr} \cup {<<i>> : i \in (0 - 1)..MaxIndex}

\* a nil *errors.Validation
NoErr == [name |-> "", in |-> "", required |-> FALSE]

\* a nil error returned by Validate
NilError == [isNil |-> TRUE, code |-> 0, errors |-> <<>>]

\* validate.Required on a pointer field: an error exactly for the nil pointer
Required(path, in, data) ==
    IF data = NilPtr
    THEN [name |-> path, in |-> in, required |-> TRUE]
    ELSE NoErr

\* errors.CompositeValidationError(res...)
CompositeValidationError(errs) ==
    [isNil |-> FALSE, code |-> 422, errors |-> errs]

\* Run is not executing
RunIdle ==
    /\ cfg = [LogLevel |-> "info", ColorLog |-> FALSE, LogToFile |-> FALSE,
              ProfileCPU |-> FALSE, HTTPProf |-> FALSE]
    /\ dirExists = FALSE
    /\ pc = "idle"
    /\ err = Nil
    /\ retErr = Nil
    /\ result = Nil
    /\ apiServer = Nil
    /\ logLevel = "unset"
    /\ colors = "unset"
    /\ logFile = "nil"
    /\ closeCount = 0
    /\ cpuProf = "off"
    /\ errC = <<>>
    /\ quit = "none"
    /\ wg = 0
    /\ worker = "none"
    /\ serveResult = "running"
    /\ shutdownCalls = 0
    /\ createCalls = 0
    /\ prof = "none"
    /\ sig = "none"
    /\ dbg = "none"
    /\ dumps = 0
    /\ lateWriters = {}
    /\ firstEvent = "none"
    /\ selCase = "none"
    /\ errAtSelect = FALSE
    /\ logErr = Nil
    /\ cpuErr = Nil

\* Validate is called on a receiver with any combination of fields
ValidateInit ==
    /\ RunIdle
    /\ m \in [Hash : HashPtrs, Index : IndexPtrs]
    /\ m0 = m
    /\ res = <<>>
    /\ vpc = "hash"
    /\ vret = NilError
    /\ existing = {}
    /\ cdPath = "logs"
    /\ cdCalls = <<>>

\* lines 232-234 and 246-253: validateHash
ValidateHash ==
    /\ vpc = "hash"
    /\ LET e == Required("hash", "body", m.Hash) IN
         res' = IF e # NoErr THEN Append(res, e) ELSE res
    /\ vpc' = "index"
    /\ UNCHANGED <<m, m0, vret>>
    /\ UNCHANGED <<runVars, dirVars>>

\* variant of ValidateIndex: the index is not looked at once hash failed
ValidateIndex_ShortCircuit ==
    /\ vpc = "index"
    /\ LET e == Required("index", "body", m.Index) IN
         res' = IF e # NoErr /\ res = <<>> THEN Append(res, e) ELSE res
    /\ vpc' = "result"
    /\ UNCHANGED <<m, m0, vret>>
    /\ UNCHANGED <<runVars, dirVars>>

\* lines 236-238 and 255-262: validateIndex
ValidateIndex ==
    /\ vpc = "index"
    /\ LET e == Required("index", "body", m.Index) IN
         res' = IF e # NoErr THEN Append(res, e) ELSE res
    /\ vpc' = "result"
    /\ UNCHANGED <<m, m0, vret>>
    /\ UNCHANGED <<runVars, dirVars>>

\* lines 240-243: the composite error, or nil when res is empty
ValidateResult ==
    /\ vpc = "result"
    /\ vret' = IF Len(res) > 0 THEN CompositeValidationError(res) ELSE NilError
    /\ vpc' = "done"
    /\ UNCHANGED <<m, m0, res>>
    /\ UNCHANGED <<runVars, dirVars>>

ValidateNext ==
    \/ ValidateHash
    \/ ValidateIndex
    \/ ValidateResult

ValidateSpec == ValidateInit /\ [][ValidateNext]_vars

\* ------------------------------------------------- createDirIfNotExist

\* directories the calls are tried on
Paths == {"logs", "data/logs", "tmp/logs"}

\* createDirIfNotExist is called on one path of a filesystem in any state
CreateDirInit ==
    /\ RunIdle
    /\ m = [Hash |-> NilPtr, Index |-> NilPtr]
    /\ m0 = m
    /\ res = <<>>
    /\ vpc = "idle"
    /\ vret = NilError
    /\ existing \in SUBSET Paths
    /\ cdPath \in Paths
    /\ cdCalls = <<>>

\* lines 166-172: one call of createDirIfNotExist(cdPath); os.Mkdir on an
\* existing directory fails
CallCreateDir ==
    /\ Len(cdCalls) < MaxCalls
    /\ \E st \in StatResults(cdPath \in existing),
          mkdirOk \in (IF cdPath \in existing THEN {FALSE} ELSE BOOLEAN) :
          LET r == createDirIfNotExist(cdPath \in existing, st, mkdirOk) IN
          /\ existing' = IF r.exists THEN existing \cup {cdPath} ELSE existing \ {cdPath}
          /\ cdCalls' = Append(cdCalls, [stat |-> st, mkdir |-> r.mkdir, err |-> r.err,
                                         before |-> existing, after |-> existing'])
    /\ UNCHANGED cdPath
    /\ UNCHANGED <<runVars, validateVars>>

CreateDirNext ==
    \/ CallCreateDir

CreateDirSpec == CreateDirInit /\ [][CreateDirNext]_vars

\* ------------------------------------------------------------ properties

\* goroutines started by Run
Goroutines == {"worker", "prof", "sig", "dbg"}

\* log-level strings logging.LevelFromString does not recognize
Unrecognized(s) ==
    ToLower(s) \notin {"debug", "info", "notice", "warn", "warning", "error",
                       "fatal", "critical", "panic"}

\* Run has returned after the server was constructed
ReturnedWithServer == pc = "returned" /\ apiServer # Nil

\* C1: whenever Run returns after Serve returned a non-nil error, Run's
\* result is that error and Shutdown was called exactly once, in every
\* interleaving of the error with the close of quit.
C1_ServeErrorIsReturned ==
    (ReturnedWithServer /\ serveResult \in ServeErrs)
        => (result = serveResult /\ shutdownCalls = 1)

\* C2 as stated: whenever quit was closed before Serve produced any error,
\* Run returns nil and Shutdown was called exactly once, also when an error
\* is sent before the select is evaluated.
C2_InterruptFirstReturnsNil ==
    (ReturnedWithServer /\ firstEvent = "quit")
        => (result = Nil /\ shutdownCalls = 1)

\* C2 amended: when the select is evaluated with no serve-loop error in the
\* error channel (so quit is closed), Run returns nil and Shutdown was
\* called exactly once, whatever Serve returns afterwards.
C2_QuitWithEmptyErrCReturnsNil ==
    (ReturnedWithServer /\ selCase # "none" /\ ~errAtSelect)
        => (result = Nil /\ shutdownCalls = 1)

\* C2 witness: Run returned nil through the quit case although Serve
\* failed after the interrupt
C2_Witness ==
    /\ pc = "returned"
    /\ selCase = "quit"
    /\ ~errAtSelect
    /\ firstEvent = "quit"
    /\ serveResult \in ServeErrs
    /\ result = Nil

\* C3: once Run has returned with a log file opened, that file has been
\* closed exactly once, on every exit path.
C3_LogFileClosedOnce ==
    (pc = "returned" /\ logFile # "nil")
        => (logFile = "closed" /\ closeCount = 1)

\* C4: Shutdown is called at most once, and only after createServer
\* returned a non-nil handle and no error.
C4_ShutdownAtMostOnceAfterCreate ==
    /\ shutdownCalls <= 1
    /\ shutdownCalls > 0 => (apiServer # Nil /\ createCalls = 1 /\ err = Nil)

\* C4 witness: Shutdown has been called after a Serve error was received
C4_Witness ==
    /\ shutdownCalls = 1
    /\ selCase = "err"
    /\ pc = "inshutdown"

\* C5: when Run has returned after launching the worker, the worker's
\* wg.Done has executed.
C5_WorkerJoinedBeforeReturn ==
    (pc = "returned" /\ worker # "none") => (worker = "done" /\ wg = 0)

\* C5 witness: Run returned on the serve-error path with the worker joined
C5_Witness ==
    /\ pc = "returned"
    /\ worker = "done"
    /\ selCase = "err"
    /\ result \in ServeErrs

C7_CreateFailNoShutdownLogClosed ==
    (createCalls > 0 /\ err \in CreateErrs) =>
        /\ shutdownCalls = 0
        /\ (pc = "returned" /\ logFile # "nil") => (logFile = "closed" /\ closeCount = 1)

\* C7 witness: Run returned after a failed construction with the log closed
C7_Witness ==
    /\ err \in CreateErrs
    /\ pc = "returned"
    /\ logFile = "closed"
    /\ closeCount = 1

\* C8: when createServer failed with e, the worker is never launched, the
\* select is never entered, Run goes straight to the cleanup and returns e.
C8_CreateFailReturnsErr ==
    (createCalls > 0 /\ err \in CreateErrs) =>
        /\ worker = "none"
        /\ wg = 0
        /\ selCase = "none"
        /\ pc \in {"early", "return", "returned"}
        /\ pc \in {"return", "returned"} => retErr = err
        /\ pc = "returned" => result = err

\* C8 witness: Run returned the construction error
C8_Witness ==
    /\ err = "device not found"
    /\ pc = "returned"
    /\ result = "device not found"
    /\ quit = "closed"

\* C9: with a worker launched and a log file opened, Shutdown is called
\* before wg.Wait returns, wg.Wait returns before the log file is closed,
\* and the file is closed before Run returns; the file is never closed
\* while the worker is still running.
C9_ShutdownJoinCloseReturn ==
    (worker # "none" /\ logFile # "nil") =>
        /\ pc \in {"wait", "early", "return", "returned"} => shutdownCalls = 1
        /\ pc \in {"early", "return", "returned"} => worker = "done"
        /\ logFile = "closed" => (worker = "done" /\ pc \in {"return", "returned"})
        /\ pc \in {"return", "returned"} => (logFile = "closed" /\ closeCount = 1)

\* C9 witness: Run returned after Shutdown, join and close
C9_Witness ==
    /\ pc = "returned"
    /\ worker = "done"
    /\ logFile = "closed"
    /\ shutdownCalls = 1
    /\ selCase = "quit"

\* C10: no goroutine started by Run writes a log line after the log file
\* was closed.
C10_NoLogWriteAfterClose ==
    lateWriters \cap Goroutines = {}

\* C11: under fair scheduling, once the server is constructed and either
\* quit is closed or Serve has returned an error, Run eventually returns.
C11_RunEventuallyReturns ==
    (apiServer # Nil /\ (quit = "closed" \/ serveResult \in ServeErrs))
        ~> (pc = "returned")

\* C11 witness: Run returned after an interrupt stopped a Serve that was
\* still running when Shutdown was called
C11_Witness ==
    /\ pc = "returned"
    /\ selCase = "quit"
    /\ firstEvent = "quit"
    /\ serveResult = Nil
    /\ shutdownCalls = 1
    /\ wg = 0

\* C12: the main thread leaves the select only by observing one event,
\* the close of quit or an error received from errC; Shutdown is called
\* only after that; a Serve that returned nil does not wake the main
\* thread, which stays at the select until quit is closed.
C12_ShutdownOnlyAfterOneEvent ==
    [][/\ (pc = "select" /\ pc' # "select") =>
             \/ /\ quit = "closed"
                /\ selCase' = "quit"
                /\ errC' = errC
                /\ retErr' = retErr
             \/ /\ errC # <<>>
                /\ selCase' = "err"
                /\ errC' = Tail(errC)
                /\ retErr' = Head(errC)
                /\ retErr' \in ServeErrs
       /\ (shutdownCalls' # shutdownCalls) => selCase \in {"quit", "err"}
       /\ (pc = "select" /\ serveResult = Nil /\ quit # "closed") => pc' = "select"
      ]_vars

\* C12 witness: Serve returned nil, the main thread was woken by quit
\* only and has called Shutdown
C12_Witness ==
    /\ pc = "inshutdown"
    /\ shutdownCalls = 1
    /\ selCase = "quit"
    /\ serveResult = Nil
    /\ worker = "done"
    /\ errC = <<>>

\* lifecycle phase of Run at position p
Phase(p) ==
    CASE p = "loglevel" -> "Init"
      [] p \in {"logfile", "cpuprof", "httpprof", "signals"} -> "Configuring"
      [] p \in {"create", "launch"} -> "Starting"
      [] p = "select" -> "Running"
      [] p \in {"shutdown", "inshutdown", "wait", "early", "return"} -> "ShuttingDown"
      [] p = "returned" -> "Terminated"
      [] OTHER -> "Idle"

\* the phase changes of the chain Init -> ... -> Terminated
ChainSteps ==
    {<<"Init", "Configuring">>, <<"Configuring", "Starting">>, <<"Starting", "Running">>,
     <<"Running", "ShuttingDown">>, <<"ShuttingDown", "Terminated">>}

\* C13 as stated: every phase change follows the chain, and the only
\* change that skips Running is Starting -> ShuttingDown on a failed
\* server construction.
C13_OnlyConstructionFailureSkipsRunning ==
    [][Phase(pc') # Phase(pc) =>
          \/ <<Phase(pc), Phase(pc')>> \in ChainSteps
          \/ /\ <<Phase(pc), Phase(pc')>> = <<"Starting", "ShuttingDown">>
             /\ err' \in CreateErrs
      ]_vars

\* C13 amended: phases only move forward and Terminated is never left;
\* Running is entered only with a constructed server; Running is skipped
\* by Starting -> ShuttingDown on a failed construction and by the early
\* error returns, which go from Init or Configuring straight to Terminated
\* before createServer is called.
C13_PhasesForwardWithEarlyReturns ==
    [][/\ Phase(pc') # Phase(pc) =>
             \/ <<Phase(pc), Phase(pc')>> \in ChainSteps
             \/ /\ <<Phase(pc), Phase(pc')>> = <<"Starting", "ShuttingDown">>
                /\ err' \in CreateErrs
                /\ apiServer' = Nil
             \/ /\ Phase(pc) \in {"Init", "Configuring"}
                /\ Phase(pc') = "Terminated"
                /\ result' # Nil
                /\ createCalls' = 0
       /\ Phase(pc') = "Running" => (apiServer' # Nil /\ err' = Nil)
      ]_vars

\* C13 witness: Run terminated from Init on an empty log-level string
C13_Witness ==
    /\ Phase(pc) = "Terminated"
    /\ cfg.LogLevel = ""
    /\ createCalls = 0
    /\ result # Nil

\* C14: when initLogFile failed (the logs directory or the log file could
\* not be created), Run has returned that error, no server was
\* constructed, no serve loop launched, no profiling started and no signal
\* listener registered.
C14_LogFileFailureAbortsRun ==
    logErr # Nil =>
        /\ cfg.LogToFile
        /\ pc = "returned"
        /\ result = logErr
        /\ createCalls = 0
        /\ apiServer = Nil
        /\ worker = "none"
        /\ cpuProf = "off"
        /\ prof = "none"
        /\ sig = "none"
        /\ dbg = "none"
        /\ quit = "none"
        /\ logFile = "nil"

\* C14 witness: os.OpenFile failed with both kinds of profiling enabled
C14_Witness ==
    /\ logErr = "open failed"
    /\ cfg.ProfileCPU
    /\ cfg.HTTPProf
    /\ pc = "returned"

\* C15: the step in which the profiling listener fails changes nothing of
\* Run but the listener goroutine's own position: not the main thread's
\* position, not retErr or the returned value, not errC, not quit, not the
\* Shutdown count.
C15_ProfFailureOnlyLogged ==
    [][(prof = "listening" /\ prof' # prof) =>
          /\ prof' = "failed"
          /\ UNCHANGED <<cfg, dirExists, pc, err, retErr, result, apiServer, logLevel,
                         colors, logFile, closeCount, cpuProf, errC, quit, wg, worker,
                         serveResult, shutdownCalls, createCalls, sig, dbg, dumps,
                         firstEvent, selCase, errAtSelect, logErr, cpuErr>>
      ]_vars

\* C15 witness: the listener has failed while Run waits at the select
\* with nothing to receive
C15_Witness ==
    /\ prof = "failed"
    /\ pc = "select"
    /\ errC = <<>>
    /\ quit = "open"
    /\ worker = "serve"

\* C16: at most one value is ever sent on errC, and once Serve has
\* returned the worker reaches wg.Done, also when the main thread left the
\* select through the quit case and never receives.
C16_SendNeverBlocks ==
    /\ [](Len(errC) + (IF selCase = "err" THEN 1 ELSE 0) <= 1)
    /\ [](worker = "senderr" => Len(errC) < ErrCCap)
    /\ (serveResult # "running") ~> (worker = "done" /\ wg = 0)

\* C16 witness: the error was sent and never received, the worker is done
C16_Witness ==
    /\ worker = "done"
    /\ selCase = "quit"
    /\ errC # <<>>
    /\ pc = "returned"

\* C17: when creating the CPU profile file or starting the profile failed,
\* Run has returned that error at once: createServer was never called, no
\* signal listener and no worker was started, and the cleanup at
\* earlyShutdown did not run (retErr unset, log file not closed).
C17_CPUProfFailureReturnsAtOnce ==
    cpuErr # Nil =>
        /\ cfg.ProfileCPU
        /\ pc = "returned"
        /\ result = cpuErr
        /\ retErr = Nil
        /\ createCalls = 0
        /\ sig = "none"
        /\ dbg = "none"
        /\ quit = "none"
        /\ worker = "none"
        /\ prof = "none"
        /\ closeCount = 0
        /\ logFile # "closed"

\* C17 witness: profiling failed to start after the log file was opened
C17_Witness ==
    /\ cpuErr = "cpu profiling already in use"
    /\ logFile = "open"
    /\ pc = "returned"

\* the required-field errors Validate has to report for receiver r
ExpectedErrors(r) ==
    (IF r.Hash = NilPtr THEN <<[name |-> "hash", in |-> "body", required |-> TRUE]>> ELSE <<>>)
    \o (IF r.Index = NilPtr THEN <<[name |-> "index", in |-> "body", required |-> TRUE]>> ELSE <<>>)

\* C18: Validate returns nil exactly when Hash and Index are both non-nil;
\* otherwise the composite error holds one required-field error per missing
\* field (both when both are missing); the receiver is never modified.
C18_ValidateRequiredFields ==
    /\ m = m0
    /\ vpc = "done" =>
          /\ vret.isNil <=> (m0.Hash # NilPtr /\ m0.Index # NilPtr)
          /\ vret.errors = ExpectedErrors(m0)
          /\ Len(vret.errors) = Cardinality({f \in {"Hash", "Index"} : m0[f] = NilPtr})

\* C18 witness: both fields missing, both errors reported
C18_Witness ==
    /\ vpc = "done"
    /\ m0.Hash = NilPtr
    /\ m0.Index = NilPtr
    /\ ~vret.isNil
    /\ Len(vret.errors) = 2

\* each call made Mkdir exactly when Stat reported not-exist, and a call
\* without Mkdir returned nil and left the filesystem alone
MkdirOnlyWhenNotExist ==
    \A i \in 1..Len(cdCalls) :
        /\ cdCalls[i].mkdir <=> IsNotExist(cdCalls[i].stat)
        /\ ~cdCalls[i].mkdir => (cdCalls[i].err = Nil /\ cdCalls[i].after = cdCalls[i].before)

\* C19 as stated: Mkdir exactly on not-exist, and two consecutive calls
\* on the same path both return nil and leave the filesystem as one call
\* left it.
C19_TwoCallsBothNil ==
    /\ MkdirOnlyWhenNotExist
    /\ Len(cdCalls) >= 2 =>
          /\ cdCalls[1].err = Nil
          /\ cdCalls[2].err = Nil
          /\ cdCalls[2].after = cdCalls[1].after

\* C19 amended: Mkdir exactly on not-exist; a call that makes Mkdir
\* returns Mkdir's result, an error when Mkdir fails; once a call has left
\* the directory existing, the next call on the same path returns nil,
\* makes no Mkdir and leaves the filesystem unchanged.
C19_IdempotentOnceDirExists ==
    /\ MkdirOnlyWhenNotExist
    /\ \A i \in 1..Len(cdCalls) :
          /\ cdCalls[i].err # Nil => (cdCalls[i].mkdir /\ cdCalls[i].after = cdCalls[i].before)
          /\ (cdCalls[i].mkdir /\ cdCalls[i].err = Nil) =>
                cdCalls[i].after = cdCalls[i].before \cup {cdPath}
          /\ (i > 1 /\ cdPath \in cdCalls[i - 1].after) =>
                /\ cdCalls[i].err = Nil
                /\ ~cdCalls[i].mkdir
                /\ cdCalls[i].after = cdCalls[i - 1].after

\* C19 witness: the first call created the directory, the second found it
C19_Witness ==
    /\ Len(cdCalls) >= 2
    /\ cdCalls[1].mkdir
    /\ cdCalls[1].err = Nil
    /\ cdPath \notin cdCalls[1].before
    /\ ~cdCalls[2].mkdir
    /\ cdCalls[2].err = Nil

====
